---- MODULE Spec2Model ----
(***************************************************************************)
(* A model of physlearn.apis.training.logging.Logger together with the     *)
(* result containers (BatchResult, EpochResult, FitResult) and the metric  *)
(* base classes it drives.                                                 *)
(*                                                                         *)
(* Python objects that are shared by reference and mutated in place (the   *)
(* deque of batch results) live in `heap`; the Logger's fields that hold   *)
(* such an object hold its address.  An object that nothing refers to any  *)
(* more is freed, and its address is used again.  Lists and dictionaries   *)
(* that are built once and never mutated afterwards are modelled by value. *)
(*                                                                         *)
(* Spec calls the Logger's methods in any order, SpecProtocol in the order *)
(* of its protocol.  SpecFit drives the Logger from a call of Trainer.fit, *)
(* which the package declares without implementing.  SpecData constructs,  *)
(* copies and compares the Signal and Sample containers of                 *)
(* physlearn.apis.data.                                                    *)
(***************************************************************************)
EXTENDS Integers, Sequences, FiniteSets, TLC

(***************************************************************************)
(* Bounds of the model.                                                    *)
(***************************************************************************)
\* batch results the Logger's deques hold at one time
MaxBatches == 2
\* successful finish_epoch calls in one run (caps the two epoch-run counters)
MaxEpochsRun == 2
\* the most epochs a max-epochs Stopper is configured for
MaxStopperEpochs == 3
\* the largest start_time and end_time of a Signal
MaxTime == 2
\* the most time steps of a time axis or a signal
MaxSteps == 2
\* the most channels of a signal
MaxChannels == 2

(***************************************************************************)
(* Enumerations of physlearn.names used by the model.                      *)
(***************************************************************************)
BatchMetricType == {"ACCURACY", "PPV"}
EpochMetricType == {"E_ACCURACY", "E_PPV"}
LossType == {"MSE", "BCE"}

\* Python's None
None == [none |-> TRUE]

(***************************************************************************)
(* Inputs.                                                                 *)
(***************************************************************************)
\* The epoch numbers start_epoch is called with
EpochNumbers == {0, 1}

\* LossResult objects handed to new_batch: a type tag and a value (tenths)
LossResult(type, value) == [type |-> type, value |-> value]

\* The (loss, y, y_pred, batch_size) combinations new_batch is called with.
\* y and y_pred stand for the label/prediction tensors of the batch.
BatchInputs ==
    { [loss |-> LossResult("MSE", 5), y |-> 1, y_pred |-> 1, batch_size |-> 4],
      [loss |-> LossResult("BCE", 3), y |-> 1, y_pred |-> 0, batch_size |-> 6] }

Models == {"model"}

\* Concrete BatchMetric subclasses: `type` is the type property, `impl`
\* selects the body of _metric.
AccuracyMetric == [type |-> "ACCURACY", impl |-> "accuracy"]
\* a second metric class that reports the same type as AccuracyMetric
HitsMetric == [type |-> "ACCURACY", impl |-> "hits"]
PPVMetric == [type |-> "PPV", impl |-> "ppv"]

\* Concrete EpochMetric subclasses: type and required_batch_metrics
EpochAccuracy == [type |-> "E_ACCURACY", required_batch_metrics |-> <<"ACCURACY">>]
EpochPPV == [type |-> "E_PPV", required_batch_metrics |-> <<"PPV">>]

\* Arguments the Logger is constructed with
LoggerArgs ==
    { \* every epoch metric finds the batch metrics it requires
      [batch_metrics |-> <<AccuracyMetric, PPVMetric>>,
       epoch_metrics |-> <<EpochAccuracy, EpochPPV>>,
       start_epoch |-> 0, keep_output |-> FALSE],
      \* EpochPPV requires PPV, which no registered batch metric produces
      [batch_metrics |-> <<AccuracyMetric>>,
       epoch_metrics |-> <<EpochAccuracy, EpochPPV>>,
       start_epoch |-> 0, keep_output |-> FALSE],
      \* two registered batch metrics report the same type
      [batch_metrics |-> <<AccuracyMetric, HitsMetric>>,
       epoch_metrics |-> <<EpochAccuracy>>,
       start_epoch |-> 1, keep_output |-> FALSE],
      \* output retention enabled
      [batch_metrics |-> <<AccuracyMetric, PPVMetric>>,
       epoch_metrics |-> <<EpochAccuracy, EpochPPV>>,
       start_epoch |-> 1, keep_output |-> TRUE] }

(***************************************************************************)
(* State.                                                                  *)
(***************************************************************************)
VARIABLES
    _batch_metrics,                 \* Logger._batch_metrics
    _epoch_metrics,                 \* Logger._epoch_metrics
    _keep_output,                   \* Logger._keep_output
    _current_epoch,                 \* Logger._current_epoch
    heap,                           \* address -> contents of a deque object
    _current_epoch_batch_results,   \* address of the in-progress deque
    _batch_train_results,           \* epoch number -> address of a deque
    _batch_validation_results,
    _epoch_train_results,           \* epoch number -> EpochResult
    _epoch_validation_results,
    mode,
    train_epochs_run,
    validation_epochs_run,
    fit_result,
    last,                           \* the most recent call: operation, arguments, outcome
    epoch_state,                    \* "none": no start_epoch succeeded yet; "open": one did and no
                                    \* finish_epoch succeeded since; "closed": finish_epoch did
    since_fit,                      \* what succeeded since the last finish_training
    returned,                       \* phase -> epoch -> the EpochResult finish_epoch returned last
    epoch_given,                    \* the epoch number the constructor or the last successful
                                    \* start_epoch was given
    reported,                       \* the BatchResults new_batch returned since the last
                                    \* successful start_epoch (or the construction)
    finishes,                       \* phase -> epoch -> the number of finish_epoch calls that
                                    \* stored a result under that number in that phase
    epochs_logged,                  \* the number of calls of the hook _log_epoch
    trainer,                        \* the call of Trainer.fit in progress and its position, None
                                    \* when the Logger is driven directly
    data                            \* the Signal or Sample operation applied last and what it
                                    \* gave, None when none was applied

vars == <<_batch_metrics, _epoch_metrics, _keep_output, _current_epoch, heap,
          _current_epoch_batch_results, _batch_train_results,
          _batch_validation_results, _epoch_train_results,
          _epoch_validation_results, mode, train_epochs_run,
          validation_epochs_run, fit_result, last, epoch_state, since_fit,
          returned, epoch_given, reported, finishes, epochs_logged,
          trainer, data>>

\* the state outside the Logger, which no method of the Logger reads or writes
outside == <<trainer, data>>

\* set by the constructor and never assigned again
config == <<_batch_metrics, _epoch_metrics, _keep_output>>

\* what the run did so far that the Logger's fields do not tell
history == <<finishes, epochs_logged>>

\* the dictionaries and counters of the finished epochs
finished == <<_batch_train_results, _batch_validation_results,
              _epoch_train_results, _epoch_validation_results,
              train_epochs_run, validation_epochs_run>>

\* all the variables of the Logger
logger == <<config, _current_epoch, heap, _current_epoch_batch_results,
            finished, mode, fit_result, last, epoch_state, since_fit, returned,
            epoch_given, reported, history>>

(***************************************************************************)
(* Helpers for Python dictionaries and sums.                               *)
(***************************************************************************)
EmptyDict == [k \in {} |-> None]

\* DictSet putting the entry in an emptied dictionary
DictSetAlone(d, k, v) == [x \in {k} |-> v]

DictSet(d, k, v) == [x \in DOMAIN d \cup {k} |-> IF x = k THEN v ELSE d[x]]

RECURSIVE SumSeq(_)
SumSeq(s) == IF s = <<>> THEN 0 ELSE Head(s) + SumSeq(Tail(s))

(***************************************************************************)
(* metrics.py                                                              *)
(***************************************************************************)
\* BatchMetric._metric of the concrete metric classes (tenths)
BatchMetric_metric(m, y, y_pred) ==
    CASE m.impl = "accuracy" -> IF y = y_pred THEN 9 ELSE 8
      [] m.impl = "hits"     -> IF y = y_pred THEN 1 ELSE 0
      [] m.impl = "ppv"      -> IF y_pred = 1 THEN 7 ELSE 2

\* BatchMetric.__call__: _metric under torch.no_grad()
BatchMetricCall(m, y, y_pred) == BatchMetric_metric(m, y, y_pred)

(***************************************************************************)
(* results.py                                                              *)
(***************************************************************************)
\* BatchResult.__init__: y and y_pred are stored as given
BatchResult(loss, metrics, batch_size, y, y_pred) ==
    [loss |-> loss, metrics |-> metrics, batch_size |-> batch_size,
     y |-> y, y_pred |-> y_pred]

\* BatchResultGetItem without the comparison of the loss types
BatchResultGetItemAnyLoss(batch, item) ==
    IF item \in BatchMetricType THEN batch.metrics[item]
    ELSE IF item \in LossType THEN batch.loss ELSE None

\* BatchResult.__getitem__ (a metric type missing from metrics is a KeyError,
\* which no caller in the model provokes)
BatchResultGetItem(batch, item) ==
    IF item \in BatchMetricType THEN batch.metrics[item]
    ELSE IF item \in LossType
         THEN IF batch.loss.type = item THEN batch.loss ELSE None
         ELSE None

EpochResult(batch_losses, batch_metrics, epoch_metrics, epoch_size) ==
    [batch_losses |-> batch_losses, batch_metrics |-> batch_metrics,
     epoch_metrics |-> epoch_metrics, epoch_size |-> epoch_size]

FitResult(btl, bvl, btm, bvm, etm, evm, num_epochs, model) ==
    [batch_train_losses |-> btl,
     batch_validation_losses |-> bvl,
     batch_train_metrics |-> btm,
     batch_validation_metrics |-> bvm,
     epoch_train_metrics |-> etm,
     epoch_validation_metrics |-> evm,
     num_epochs |-> num_epochs, model |-> model]

(***************************************************************************)
(* metrics.py: EpochMetric                                                 *)
(***************************************************************************)
\* MissingInBatch with the first batch of the sequence skipped
MissingInBatchSkipFirst(m, batch_results) ==
    \E r \in 1..Len(m.required_batch_metrics) :
        \E b \in 2..Len(batch_results) :
            m.required_batch_metrics[r] \notin DOMAIN batch_results[b].metrics

\* The check of EpochMetric.__call__: some required metric type is missing
\* from some batch of the sequence
MissingInBatch(m, batch_results) ==
    \E r \in 1..Len(m.required_batch_metrics) :
        \E b \in 1..Len(batch_results) :
            m.required_batch_metrics[r] \notin DOMAIN batch_results[b].metrics

\* EpochMetric._metric of the concrete classes: the sum over the batches of
\* the required batch metrics, each weighted by the batch size
EpochMetric_metric(m, batch_results) ==
    SumSeq([b \in 1..Len(batch_results) |->
              batch_results[b].batch_size *
              SumSeq([r \in 1..Len(m.required_batch_metrics) |->
                        BatchResultGetItem(batch_results[b],
                                           m.required_batch_metrics[r])])])

\* _metric indexes a batch by a metric type the batch does not hold:
\* BatchResult.__getitem__ raises KeyError
MetricKeyError(m, batch_results) ==
    \E r \in 1..Len(m.required_batch_metrics) :
        \E b \in 1..Len(batch_results) :
            m.required_batch_metrics[r] \notin DOMAIN batch_results[b].metrics

\* EpochMetric.__call__: raises IndexError when a required metric is missing
\* in a batch, and returns the value of _metric otherwise
EpochMetricCall(m, batch_results) ==
    IF MissingInBatch(m, batch_results)
    THEN [raised |-> "IndexError", value |-> 0]
    ELSE IF MetricKeyError(m, batch_results)
         THEN [raised |-> "KeyError", value |-> 0]
         ELSE [raised |-> "None", value |-> EpochMetric_metric(m, batch_results)]

(***************************************************************************)
(* logging.py: the pure parts of the Logger's methods                      *)
(***************************************************************************)
\* Keys of {m.type: ... for m in metrics}
TypesOf(metrics) == {metrics[i].type : i \in 1..Len(metrics)}

\* In a dictionary filled by a loop over `metrics`, the entry of type t is
\* the one written by the last metric of that type
LastOfType(metrics, t) ==
    CHOOSE i \in 1..Len(metrics) :
        /\ metrics[i].type = t
        /\ \A j \in (i+1)..Len(metrics) : metrics[j].type # t

\* new_batch: {m.type: m(y, y_pred) for m in self._batch_metrics}
NewBatchMetrics(batch_metrics, y, y_pred) ==
    [t \in TypesOf(batch_metrics) |->
        BatchMetricCall(batch_metrics[LastOfType(batch_metrics, t)], y, y_pred)]

\* finish_epoch: batch_losses after the walk over the buffer
FinishEpochLosses(buf) == [i \in 1..Len(buf) |-> buf[i].loss]

\* finish_epoch: the inner loop, for metric in self._batch_metrics:
\*     batch_metrics[metric.type].append(batch[metric.type])
RECURSIVE AppendBatchMetrics(_, _, _, _)
AppendBatchMetrics(acc, batch_metrics, batch, j) ==
    IF j > Len(batch_metrics) THEN acc
    ELSE AppendBatchMetrics(
             [acc EXCEPT ![batch_metrics[j].type] =
                  Append(@, BatchResultGetItem(batch, batch_metrics[j].type))],
             batch_metrics, batch, j + 1)

\* finish_epoch: the outer loop, for batch in self._current_epoch_batch_results
RECURSIVE WalkBuffer(_, _, _, _)
WalkBuffer(acc, batch_metrics, buf, i) ==
    IF i > Len(buf) THEN acc
    ELSE WalkBuffer(AppendBatchMetrics(acc, batch_metrics, buf[i], 1),
                    batch_metrics, buf, i + 1)

\* finish_epoch: batch_metrics after the walk, from {metric.type: []}
FinishEpochBatchMetrics(batch_metrics, buf) ==
    WalkBuffer([t \in TypesOf(batch_metrics) |-> <<>>], batch_metrics, buf, 1)

\* AddBatchSize counting batches instead of samples
AddBatchSizeCountsBatches(epoch_size, batch) == epoch_size + 1

\* finish_epoch: epoch_size += batch.batch_size
AddBatchSize(epoch_size, batch) == epoch_size + batch.batch_size

\* finish_epoch: epoch_size after the first i batches of the walk
RECURSIVE EpochSizeAfter(_, _)
EpochSizeAfter(buf, i) ==
    IF i = 0 THEN 0 ELSE AddBatchSize(EpochSizeAfter(buf, i - 1), buf[i])

\* finish_epoch: epoch_size after the walk
FinishEpochSize(buf) == EpochSizeAfter(buf, Len(buf))

\* finish_epoch: some m(self._current_epoch_batch_results) raises
FinishEpochRaises(epoch_metrics, buf) ==
    \E i \in 1..Len(epoch_metrics) :
        EpochMetricCall(epoch_metrics[i], buf).raised # "None"

\* finish_epoch: the error of the first epoch metric that raises
FinishEpochRaised(epoch_metrics, buf) ==
    LET first == CHOOSE i \in 1..Len(epoch_metrics) :
                     /\ EpochMetricCall(epoch_metrics[i], buf).raised # "None"
                     /\ \A j \in 1..(i-1) :
                            EpochMetricCall(epoch_metrics[j], buf).raised = "None"
    IN EpochMetricCall(epoch_metrics[first], buf).raised

\* finish_epoch: the calls m(self._current_epoch_batch_results) made by the
\* loop over self._epoch_metrics, in order: the metric's index and the batch
\* results it is given; a metric that raises ends the loop
FinishEpochEvaluations(epoch_metrics, buf) ==
    LET raising == {i \in 1..Len(epoch_metrics) :
                       EpochMetricCall(epoch_metrics[i], buf).raised # "None"}
        made == IF raising = {} THEN Len(epoch_metrics)
                ELSE CHOOSE i \in raising : \A j \in raising : i <= j
    IN [i \in 1..made |-> [metric |-> i, batch_results |-> buf]]

\* FinishEpochEpochMetrics evaluated before the last batch has arrived
FinishEpochEpochMetricsPartial(epoch_metrics, buf) ==
    [t \in TypesOf(epoch_metrics) |->
        EpochMetricCall(epoch_metrics[LastOfType(epoch_metrics, t)],
                        SubSeq(buf, 1, Len(buf) - 1)).value]

\* finish_epoch: epoch_metrics[m.type] = m(buffer) for m in self._epoch_metrics
FinishEpochEpochMetrics(epoch_metrics, buf) ==
    [t \in TypesOf(epoch_metrics) |->
        EpochMetricCall(epoch_metrics[LastOfType(epoch_metrics, t)], buf).value]

\* finish_epoch: the EpochResult built from the buffer
FinishEpochResult(batch_metrics, epoch_metrics, buf) ==
    EpochResult(FinishEpochLosses(buf),
                FinishEpochBatchMetrics(batch_metrics, buf),
                FinishEpochEpochMetrics(epoch_metrics, buf),
                FinishEpochSize(buf))

\* StartEpochMode with a mode name finish_epoch does not know
StartEpochModeMisspelt(train) == IF train THEN "train" ELSE "validation"

\* start_epoch: self.mode = "training" if train else "validation"
StartEpochMode(train) == IF train THEN "training" ELSE "validation"

\* A reference held by a FitResult to a sequence object: the list `list`, which
\* nothing appends to once it is built (deque = 0), or the Logger's deque at
\* the address `deque`
ListObject(list) == [deque |-> 0, list |-> list]

\* FitLosses handing out the stored deques of batch results themselves
FitLossesAliasDeques(epoch_results) ==
    [e \in DOMAIN epoch_results |->
        [deque |-> IF epoch_results = _epoch_train_results
                   THEN _batch_train_results[e]
                   ELSE _batch_validation_results[e],
         list |-> <<>>]]

\* finish_training: the losses of one phase, epoch -> res.batch_losses, the
\* list finish_epoch built for the EpochResult
FitLosses(epoch_results) ==
    [e \in DOMAIN epoch_results |-> ListObject(epoch_results[e].batch_losses)]

\* FitBatchMetrics reading every type's sequence under the first metric's type
FitBatchMetricsFirstType(batch_metrics, epoch_results) ==
    [t \in TypesOf(batch_metrics) |->
        [e \in DOMAIN epoch_results |->
            epoch_results[e].batch_metrics[batch_metrics[1].type]]]

\* finish_training: the batch metrics of one phase, type -> epoch -> sequence
FitBatchMetrics(batch_metrics, epoch_results) ==
    [t \in TypesOf(batch_metrics) |->
        [e \in DOMAIN epoch_results |-> epoch_results[e].batch_metrics[t]]]

\* finish_training: the epoch metrics of one phase, type -> epoch -> scalar
FitEpochMetrics(epoch_metrics, epoch_results) ==
    [t \in TypesOf(epoch_metrics) |->
        [e \in DOMAIN epoch_results |-> epoch_results[e].epoch_metrics[t]]]

\* FitTrainSource reading the other phase's dictionary
FitTrainSourceOtherPhase == _epoch_validation_results

\* finish_training: the dictionary the training maps are built from
FitTrainSource == _epoch_train_results

\* finish_training: the dictionary the validation maps are built from
FitValidationSource == _epoch_validation_results

\* FinishTrainingResult with the training losses read from the stored deques
\* of batch results instead of the EpochResults
FinishTrainingResultFromDeques(model) ==
    FitResult([e \in DOMAIN _batch_train_results |->
                  ListObject([i \in 1..Len(heap[_batch_train_results[e]]) |->
                                 heap[_batch_train_results[e]][i].loss])],
              FitLosses(FitValidationSource),
              FitBatchMetrics(_batch_metrics, FitTrainSource),
              FitBatchMetrics(_batch_metrics, FitValidationSource),
              FitEpochMetrics(_epoch_metrics, FitTrainSource),
              FitEpochMetrics(_epoch_metrics, FitValidationSource),
              _current_epoch, model)

\* FinishTrainingResult with num_epochs recounted from the training epochs run
FinishTrainingResultRecount(model) ==
    FitResult(FitLosses(FitTrainSource),
              FitLosses(FitValidationSource),
              FitBatchMetrics(_batch_metrics, FitTrainSource),
              FitBatchMetrics(_batch_metrics, FitValidationSource),
              FitEpochMetrics(_epoch_metrics, FitTrainSource),
              FitEpochMetrics(_epoch_metrics, FitValidationSource),
              train_epochs_run, model)

\* finish_training: the FitResult built from the accumulated epoch results
FinishTrainingResult(model) ==
    FitResult(FitLosses(FitTrainSource),
              FitLosses(FitValidationSource),
              FitBatchMetrics(_batch_metrics, FitTrainSource),
              FitBatchMetrics(_batch_metrics, FitValidationSource),
              FitEpochMetrics(_epoch_metrics, FitTrainSource),
              FitEpochMetrics(_epoch_metrics, FitValidationSource),
              _current_epoch, model)

\* StartEpochInvalid rejecting only train and validation both set
StartEpochInvalidBothOnly(train, validation) == train /\ validation

\* start_epoch: if train == validation: raise ValueError
StartEpochInvalid(train, validation) == train = validation

\* record of a call: the operation, the arguments the claims read (None
\* where the returned value or the state holds them), the error it raised
\* ("None" when it returned) and the value it returned
Call(op, args, err, ret) == [op |-> op, args |-> args, err |-> err, ret |-> ret]

\* since_fit, once finish_training was called: since the last finish_training
\* no start_epoch and no finish_epoch succeeded ("nothing"; "again" when that
\* finish_training itself followed an earlier one in the same way), or
\* finish_epoch calls did and no start_epoch ("finished"), or a start_epoch
\* did ("started")
SinceFit(what) ==
    IF fit_result = None \/ since_fit = "started" THEN since_fit ELSE what

NothingSinceFit == since_fit \in {"nothing", "again"}

\* the in-progress buffer's contents
CurrentBuffer == heap[_current_epoch_batch_results]

\* the epochs after which Trainer.fit ends the loop when no Stopper fired
FitMaxEpochs == MaxStopperEpochs + 1

\* Addresses of deque objects: the Logger refers to at most one deque per
\* finished epoch and to the in-progress one; a call of fit finishes at
\* most FitMaxEpochs epochs in each phase
Addresses ==
    1..(IF MaxEpochsRun > 2 * FitMaxEpochs THEN MaxEpochsRun + 1
        ELSE 2 * FitMaxEpochs + 1)

\* the deques two dictionaries of batch results refer to
Referenced(train_results, validation_results) ==
    {train_results[e] : e \in DOMAIN train_results}
        \cup {validation_results[e] : e \in DOMAIN validation_results}

\* the heap once the objects outside `live` are freed
Collect(h, live) == [a \in Addresses |-> IF a \in live THEN h[a] ELSE <<>>]

\* NewDeque handing back the deque in use instead of a new one
NewDequeReused(live) == _current_epoch_batch_results

\* deque(): the address of a new object, given the objects that stay alive
NewDeque(live) == CHOOSE a \in Addresses \ live : \A b \in Addresses \ live : a <= b

\* batch results held by the Logger's deques
BatchesHeld == SumSeq([a \in Addresses |-> Len(heap[a])])

(***************************************************************************)
(* Logger.__init__                                                         *)
(***************************************************************************)
LoggerInit(a) ==
    /\ _batch_metrics = a.batch_metrics
    /\ _epoch_metrics = a.epoch_metrics
    /\ _current_epoch = a.start_epoch
    /\ _keep_output = a.keep_output
    /\ heap = [addr \in Addresses |-> <<>>]
    /\ _current_epoch_batch_results = 1
    /\ _batch_train_results = EmptyDict
    /\ _batch_validation_results = EmptyDict
    /\ _epoch_train_results = EmptyDict
    /\ _epoch_validation_results = EmptyDict
    /\ mode = ""
    /\ train_epochs_run = 0
    /\ validation_epochs_run = 0
    /\ fit_result = None
    /\ last = Call("__init__", None, "None", None)
    /\ epoch_state = "none"
    /\ since_fit = "nothing"
    /\ returned = [training |-> EmptyDict, validation |-> EmptyDict]
    /\ epoch_given = a.start_epoch
    /\ reported = <<>>
    /\ finishes = [training |-> EmptyDict, validation |-> EmptyDict]
    /\ epochs_logged = 0

\* a Logger is constructed, to be driven directly
Init ==
    \E a \in LoggerArgs :
        /\ LoggerInit(a)
        /\ trainer = None
        /\ data = None

(***************************************************************************)
(* Logger.new_batch                                                        *)
(***************************************************************************)
\* NewBatchUnsupported with the BatchResult buffered before _save_output is
\* called
NewBatchUnsupportedAfterAppend(b) ==
    /\ _keep_output
    /\ heap' = [heap EXCEPT ![_current_epoch_batch_results] =
                    Append(@, BatchResult(b.loss,
                                          NewBatchMetrics(_batch_metrics, b.y, b.y_pred),
                                          b.batch_size, b.y, b.y_pred))]
    /\ last' = Call("new_batch", None, "NotImplementedError", None)
    /\ UNCHANGED <<config, history, _current_epoch, _current_epoch_batch_results,
                   finished, mode, fit_result, epoch_state, since_fit, returned,
                   epoch_given, reported>>

\* with keep_output, _save_output raises before anything is built
NewBatchUnsupported(b) ==
    /\ _keep_output
    /\ last' = Call("new_batch", None, "NotImplementedError", None)
    /\ UNCHANGED <<config, history, _current_epoch, heap, _current_epoch_batch_results,
                   finished, mode, fit_result, epoch_state, since_fit, returned,
                   epoch_given, reported>>

\* NewBatchAppend with the BatchResult put at the front of the buffer
NewBatchAppendLeft(b) ==
    /\ ~_keep_output
    /\ LET batch_result ==
               BatchResult(b.loss, NewBatchMetrics(_batch_metrics, b.y, b.y_pred),
                           b.batch_size, b.y, b.y_pred)
       IN /\ heap' = [heap EXCEPT ![_current_epoch_batch_results] =
                          <<batch_result>> \o @]
          /\ last' = Call("new_batch", b, "None", batch_result)
          /\ reported' = Append(reported, batch_result)
    /\ UNCHANGED <<config, history, _current_epoch, _current_epoch_batch_results,
                   finished, mode, fit_result, epoch_state, since_fit, returned,
                   epoch_given>>

NewBatchAppend(b) ==
    /\ ~_keep_output
    /\ LET batch_result ==
               BatchResult(b.loss, NewBatchMetrics(_batch_metrics, b.y, b.y_pred),
                           b.batch_size, b.y, b.y_pred)
       IN /\ heap' = [heap EXCEPT ![_current_epoch_batch_results] =
                          Append(@, batch_result)]
          /\ last' = Call("new_batch", b, "None", batch_result)
          /\ reported' = Append(reported, batch_result)
    /\ UNCHANGED <<config, history, _current_epoch, _current_epoch_batch_results,
                   finished, mode, fit_result, epoch_state, since_fit, returned,
                   epoch_given>>

new_batch == \E b \in BatchInputs : NewBatchUnsupported(b) \/ NewBatchAppend(b)

(***************************************************************************)
(* Logger.start_epoch                                                      *)
(***************************************************************************)
\* StartEpochRejected with the epoch number assigned before the check
StartEpochRejectedAfterAssign(train, validation, n) ==
    /\ train = validation
    /\ _current_epoch' = n
    /\ last' = Call("start_epoch", [train |-> train, validation |-> validation],
                    "ValueError", None)
    /\ UNCHANGED <<config, history, heap, _current_epoch_batch_results,
                   finished, mode, fit_result, epoch_state, since_fit, returned,
                   epoch_given, reported>>

\* StartEpochRejected with the buffer replaced before the check
StartEpochRejectedAfterReset(train, validation, n) ==
    /\ train = validation
    /\ LET live == Referenced(_batch_train_results, _batch_validation_results)
       IN /\ _current_epoch_batch_results' = NewDeque(live)
          /\ heap' = Collect(heap, live)
    /\ last' = Call("start_epoch", [train |-> train, validation |-> validation],
                    "ValueError", None)
    /\ UNCHANGED <<config, history, _current_epoch,
                   finished, mode, fit_result, epoch_state, since_fit, returned,
                   epoch_given, reported>>

StartEpochArgs(train, validation, n) ==
    [train |-> train, validation |-> validation, current_epoch |-> n]

StartEpochRejected(train, validation, n) ==
    /\ StartEpochInvalid(train, validation)
    /\ last' = Call("start_epoch", [train |-> train, validation |-> validation],
                    "ValueError", None)
    /\ UNCHANGED <<config, history, _current_epoch, heap, _current_epoch_batch_results,
                   finished, mode, fit_result, epoch_state, since_fit, returned,
                   epoch_given, reported>>

\* StartEpochAccepted with the buffer emptied in place instead of replaced
StartEpochAcceptedClears(train, validation, n) ==
    /\ ~StartEpochInvalid(train, validation)
    /\ heap' = [heap EXCEPT ![_current_epoch_batch_results] = <<>>]
    /\ mode' = StartEpochMode(train)
    /\ _current_epoch' = n
    /\ last' = Call("start_epoch", StartEpochArgs(train, validation, n),
                    "None", None)
    /\ epoch_state' = "open"
    /\ since_fit' = IF fit_result = None THEN since_fit ELSE "started"
    /\ epoch_given' = n
    /\ reported' = <<>>
    /\ UNCHANGED <<config, history, _current_epoch_batch_results, finished,
                   fit_result, returned>>

StartEpochAccepted(train, validation, n) ==
    /\ ~StartEpochInvalid(train, validation)
    \* self._current_epoch_batch_results = deque(): a new, empty object; the
    \* old one stays alive only if a dictionary refers to it
    /\ LET live == Referenced(_batch_train_results, _batch_validation_results)
       IN /\ _current_epoch_batch_results' = NewDeque(live)
          /\ heap' = Collect(heap, live)
    /\ mode' = StartEpochMode(train)
    /\ _current_epoch' = n
    /\ last' = Call("start_epoch", StartEpochArgs(train, validation, n),
                    "None", None)
    /\ epoch_state' = "open"
    /\ since_fit' = IF fit_result = None THEN since_fit ELSE "started"
    /\ epoch_given' = n
    /\ reported' = <<>>
    /\ UNCHANGED <<config, history, finished, fit_result, returned>>

start_epoch ==
    \E train \in BOOLEAN, validation \in BOOLEAN, n \in EpochNumbers :
        \/ StartEpochRejected(train, validation, n)
        \/ StartEpochAccepted(train, validation, n)

(***************************************************************************)
(* Logger.finish_epoch                                                     *)
(***************************************************************************)
\* an epoch metric raises: nothing has been stored yet
FinishEpochMissing ==
    /\ FinishEpochRaises(_epoch_metrics, CurrentBuffer)
    /\ last' = Call("finish_epoch", None,
                    FinishEpochRaised(_epoch_metrics, CurrentBuffer), None)
    /\ UNCHANGED <<config, history, _current_epoch, heap, _current_epoch_batch_results,
                   finished, mode, fit_result, epoch_state, since_fit, returned,
                   epoch_given, reported>>

\* FinishEpochUnknownMode with the epoch counted as a validation epoch
\* before the error is raised
FinishEpochUnknownModeCounted ==
    /\ ~FinishEpochRaises(_epoch_metrics, CurrentBuffer)
    /\ mode # "training"
    /\ mode # "validation"
    /\ validation_epochs_run' = validation_epochs_run + 1
    /\ last' = Call("finish_epoch", None, "RuntimeError", None)
    /\ UNCHANGED <<config, history, _current_epoch, heap, _current_epoch_batch_results,
                   _batch_train_results, _batch_validation_results,
                   _epoch_train_results, _epoch_validation_results,
                   train_epochs_run, mode, fit_result, epoch_state, since_fit,
                   returned, epoch_given, reported>>

\* the else branch: raise RuntimeError
FinishEpochUnknownMode ==
    /\ ~FinishEpochRaises(_epoch_metrics, CurrentBuffer)
    /\ mode # "training"
    /\ mode # "validation"
    /\ last' = Call("finish_epoch", None, "RuntimeError", None)
    /\ UNCHANGED <<config, history, _current_epoch, heap, _current_epoch_batch_results,
                   finished, mode, fit_result, epoch_state, since_fit, returned,
                   epoch_given, reported>>

\* StoresAsTraining taking any mode that is set for the training mode
StoresAsTrainingAnyMode == mode # ""

\* finish_epoch: if self.mode == "training" (the branch that stores in the
\* training dictionaries)
StoresAsTraining == mode = "training"

FinishEpochStore ==
    /\ ~FinishEpochRaises(_epoch_metrics, CurrentBuffer)
    /\ mode \in {"training", "validation"}
    /\ LET epoch_result ==
               FinishEpochResult(_batch_metrics, _epoch_metrics, CurrentBuffer)
       IN /\ IF StoresAsTraining
             THEN /\ _batch_train_results' =
                         DictSet(_batch_train_results, _current_epoch,
                                 _current_epoch_batch_results)
                  /\ _epoch_train_results' =
                         DictSet(_epoch_train_results, _current_epoch, epoch_result)
                  /\ train_epochs_run' = train_epochs_run + 1
                  /\ UNCHANGED <<_batch_validation_results,
                                 _epoch_validation_results, validation_epochs_run>>
             ELSE /\ _batch_validation_results' =
                         DictSet(_batch_validation_results, _current_epoch,
                                 _current_epoch_batch_results)
                  /\ _epoch_validation_results' =
                         DictSet(_epoch_validation_results, _current_epoch,
                                 epoch_result)
                  /\ validation_epochs_run' = validation_epochs_run + 1
                  /\ UNCHANGED <<_batch_train_results, _epoch_train_results,
                                 train_epochs_run>>
          /\ last' = Call("finish_epoch", None, "None", epoch_result)
          /\ returned' = [returned EXCEPT ![mode] =
                              DictSet(@, _current_epoch, epoch_result)]
    \* a deque whose dictionary entry was overwritten is freed
    /\ heap' = Collect(heap, Referenced(_batch_train_results', _batch_validation_results')
                               \cup {_current_epoch_batch_results})
    /\ epoch_state' = "closed"
    /\ since_fit' = SinceFit("finished")
    /\ finishes' = [finishes EXCEPT ![mode] = DictSet(@, _current_epoch,
                        IF _current_epoch \in DOMAIN @ THEN @[_current_epoch] + 1 ELSE 1)]
    \* self._log_epoch(logs, epoch_result)
    /\ epochs_logged' = epochs_logged + 1
    /\ UNCHANGED <<config, _current_epoch, _current_epoch_batch_results,
                   mode, fit_result, epoch_given, reported>>

finish_epoch == FinishEpochMissing \/ FinishEpochUnknownMode \/ FinishEpochStore

(***************************************************************************)
(* Logger.finish_training                                                  *)
(***************************************************************************)
\* finish_training handing out the FitResult it built first
FinishTrainingOnce ==
    \E model \in Models :
        /\ fit_result' = IF fit_result = None THEN FinishTrainingResult(model)
                         ELSE fit_result
        /\ last' = Call("finish_training", None, "None", fit_result')
        /\ since_fit' = IF fit_result # None /\ NothingSinceFit
                        THEN "again" ELSE "nothing"
        /\ UNCHANGED <<config, history, _current_epoch, heap,
                       _current_epoch_batch_results, finished, mode,
                       epoch_state, returned, epoch_given, reported>>

finish_training ==
    \E model \in Models :
        /\ fit_result' = FinishTrainingResult(model)
        /\ last' = Call("finish_training", None, "None", fit_result')
        /\ since_fit' = IF fit_result # None /\ NothingSinceFit
                        THEN "again" ELSE "nothing"
        /\ UNCHANGED <<config, history, _current_epoch, heap,
                       _current_epoch_batch_results, finished, mode,
                       epoch_state, returned, epoch_given, reported>>

\* the model keeps on within its bounds
BatchesWithinBound == BatchesHeld < MaxBatches
EpochsWithinBound == train_epochs_run + validation_epochs_run < MaxEpochsRun

\* the Logger's methods called in any order, with any arguments
Next ==
    \/ \E b \in BatchInputs : NewBatchUnsupported(b) /\ UNCHANGED outside
    \/ \E b \in BatchInputs :
           BatchesWithinBound /\ NewBatchAppend(b) /\ UNCHANGED outside
    \/ \E train \in BOOLEAN, validation \in BOOLEAN, n \in EpochNumbers :
           StartEpochRejected(train, validation, n) /\ UNCHANGED outside
    \/ \E train \in BOOLEAN, validation \in BOOLEAN, n \in EpochNumbers :
           StartEpochAccepted(train, validation, n) /\ UNCHANGED outside
    \/ FinishEpochMissing /\ UNCHANGED outside
    \/ FinishEpochUnknownMode /\ UNCHANGED outside
    \/ EpochsWithinBound /\ FinishEpochStore /\ UNCHANGED outside
    \/ finish_training /\ UNCHANGED outside

Spec == Init /\ [][Next]_vars

\* the Logger's methods called as its protocol prescribes: start_epoch, any
\* number of new_batch calls, finish_epoch, and again; finish_training at
\* any point
NextProtocol ==
    \/ epoch_state # "open" /\ start_epoch /\ UNCHANGED outside
    \/ epoch_state = "open" /\ BatchesWithinBound /\ new_batch /\ UNCHANGED outside
    \/ /\ epoch_state = "open"
       /\ \/ FinishEpochMissing
          \/ FinishEpochUnknownMode
          \/ EpochsWithinBound /\ FinishEpochStore
       /\ UNCHANGED outside
    \/ finish_training /\ UNCHANGED outside

SpecProtocol == Init /\ [][NextProtocol]_vars

(***************************************************************************)
(* data.py: Signal                                                         *)
(***************************************************************************)
\* a numpy array of two dimensions, by its shape
Array(rows, cols) == [shape |-> <<rows, cols>>]

\* ndarray.size
ArraySize(array) == array.shape[1] * array.shape[2]

\* The arguments Signal is constructed with.  channel_names is a sequence;
\* None takes the same branch as the empty sequence (if self.channel_names)
SignalArgs ==
    [start_time : 0..MaxTime, end_time : 0..MaxTime,
     time_axis : {Array(1, n) : n \in 0..MaxSteps},
     signal : {Array(c, n) : c \in 0..MaxChannels, n \in 0..MaxSteps},
     signal_type : {"FAKE"},
     channel_names : {[i \in 1..k |-> "channel"] : k \in 0..MaxChannels}]

\* the outcome of a call: the exception raised ("None" when it returned)
\* and the value returned
Raise(exception) == [raised |-> exception, value |-> None]
Return(value) == [raised |-> "None", value |-> value]

\* Signal.get_num_channels
GetNumChannels(signal) == signal.shape[1]

\* Signal.check_dimensions raises
CheckDimensions(self) ==
    IF ArraySize(self.signal) = 0 THEN FALSE
    ELSE IF self.signal.shape[2] = self.time_axis.shape[2] THEN FALSE
    ELSE TRUE

\* CheckTimes accepting an end time equal to the start time
CheckTimesStrict(self) == self.end_time < self.start_time

\* Signal.check_times raises
CheckTimes(self) == self.end_time <= self.start_time

\* Signal._check_num_channels raises
CheckNumChannels(self) ==
    IF self.channel_names # <<>>
    THEN self.num_channels # Len(self.channel_names)
    ELSE FALSE

\* Signal.__init__: the fields are assigned, then the three checks run
Signal__init__(args) ==
    LET self == [start_time |-> args.start_time, end_time |-> args.end_time,
                 time_axis |-> args.time_axis, signal |-> args.signal,
                 signal_type |-> args.signal_type,
                 channel_names |-> args.channel_names,
                 num_channels |-> GetNumChannels(args.signal)]
    IN IF CheckDimensions(self) THEN Raise("ValueError")
       ELSE IF CheckTimes(self) THEN Raise("ValueError")
       ELSE IF CheckNumChannels(self) THEN Raise("ValueError")
       ELSE Return(self)

\* The keyword arguments signal_like_this is called with: the names given,
\* each with its value
SignalKwargs ==
    UNION {[names -> 0..MaxTime] : names \in SUBSET {"start_time", "end_time"}}

\* Signal.signal_like_this with start_time and end_time given or left out:
\* start_time = start_time if start_time else self.start_time, and so on
SignalLikeThis(self, kwargs) ==
    LET Given(name) == name \in DOMAIN kwargs /\ kwargs[name] # 0
    IN Signal__init__(
           [start_time |-> IF Given("start_time") THEN kwargs.start_time
                           ELSE self.start_time,
            end_time |-> IF Given("end_time") THEN kwargs.end_time
                         ELSE self.end_time,
            time_axis |-> self.time_axis, signal |-> self.signal,
            signal_type |-> self.signal_type,
            channel_names |-> self.channel_names])

\* a Signal is constructed
SignalNew ==
    \E args \in SignalArgs :
        /\ data = None
        /\ data' = [op |-> "Signal", args |-> args] @@ Signal__init__(args)

\* signal_like_this is called on the Signal at hand
SignalLikeThisCall ==
    /\ data # None
    /\ data.op \in {"Signal", "signal_like_this"}
    /\ data.raised = "None"
    /\ \E kwargs \in SignalKwargs :
           data' = [op |-> "signal_like_this", self |-> data.value,
                    args |-> kwargs] @@ SignalLikeThis(data.value, kwargs)

(***************************************************************************)
(* data.py: Sample                                                         *)
(***************************************************************************)
\* the Signal of the samples
FakeSignal ==
    Signal__init__([start_time |-> 0, end_time |-> 1, time_axis |-> Array(1, 1),
                    signal |-> Array(1, 1), signal_type |-> "FAKE",
                    channel_names |-> <<>>]).value

\* dictionaries of tensors and of metadata, a tensor given by a number
NoEntries == [k \in {} |-> 0]
FakeEntry(v) == [k \in {"FAKE"} |-> v]

\* The arguments Sample is constructed with
SampleArgs ==
    [db : {"fake_source"}, db_version : {"fake version"},
     patient_id : {0, 5}, record_id : {0, 1}, sample_id : {0},
     signals : {[k \in {"FAKE"} |-> FakeSignal]},
     data : {FakeEntry(1)}, metadata : {NoEntries}, label : {FakeEntry(1)}]

\* Sample.__init__ assigns the fields as given
Sample__init__(args) == args

\* the properties of Sample
SampleProperties ==
    {"record_id", "db", "db_version", "patient_id", "sample_id", "signals",
     "data", "metadata", "label"}

\* bool(value), for the value of a field of a Sample
Truthy(name, value) ==
    IF name \in {"patient_id", "record_id", "sample_id"} THEN value # 0
    ELSE IF name \in {"db", "db_version"} THEN value # ""
    ELSE DOMAIN value # {}

\* The keyword arguments sample_like_this is called with: the names given,
\* each with its value
SampleKwargs ==
    LET values == [patient_id : {0, 17}, record_id : {0, 3},
                   db_version : {"", "another version"},
                   metadata : {NoEntries, FakeEntry(2)},
                   label : {NoEntries, FakeEntry(2)}]
    IN {[name \in names |-> v[name]] :
            v \in values,
            names \in SUBSET {"patient_id", "record_id", "db_version",
                              "metadata", "label"}}

\* Sample.sample_like_this: patient_id = patient_id if patient_id else
\* self.patient_id, and so on for every field
SampleLikeThis(self, kwargs) ==
    Sample__init__([name \in SampleProperties |->
                       IF name \in DOMAIN kwargs /\ Truthy(name, kwargs[name])
                       THEN kwargs[name] ELSE self[name]])

\* compare_tensor_dict
CompareTensorDict(d1, d2) ==
    IF DOMAIN d1 = {} /\ DOMAIN d2 = {} THEN TRUE
    ELSE /\ DOMAIN d1 = DOMAIN d2
         /\ \A k \in DOMAIN d1 \cap DOMAIN d2 : d1[k] = d2[k]

\* Sample.__eq__: the list given to all() is built first, and building it
\* reads self.time, which Sample does not define
SampleEq(self, other) ==
    IF "time" \notin SampleProperties
    THEN [raised |-> "AttributeError", value |-> FALSE]
    ELSE [raised |-> "None",
          value |-> /\ self.db = other.db
                    /\ self.db_version = other.db_version
                    /\ self.patient_id = other.patient_id
                    /\ self.record_id = other.record_id
                    /\ self.sample_id = other.sample_id
                    /\ self.time = other.time
                    /\ self.signals = other.signals
                    /\ CompareTensorDict(self.data, other.data)
                    /\ CompareTensorDict(self.label, other.label)]

\* a Sample is constructed
SampleNew ==
    \E args \in SampleArgs :
        /\ data = None
        /\ data' = [op |-> "Sample", args |-> args] @@ Return(Sample__init__(args))

\* sample_like_this is called on the Sample at hand
SampleLikeThisCall ==
    /\ data # None
    /\ data.op = "Sample"
    /\ \E kwargs \in SampleKwargs :
           data' = [op |-> "sample_like_this", self |-> data.value,
                    args |-> kwargs] @@ Return(SampleLikeThis(data.value, kwargs))

\* the Sample sample_like_this was called on is compared with the Sample it
\* returned: self == other
SampleEqCall ==
    /\ data # None
    /\ data.op = "sample_like_this"
    /\ data' = [op |-> "__eq__", self |-> data.self, args |-> data.args,
                other |-> data.value] @@ SampleEq(data.self, data.value)

(***************************************************************************)
(* Signals and Samples constructed, copied and compared.                   *)
(***************************************************************************)
\* no Signal and no Sample yet; the Logger plays no part
InitData ==
    /\ LoggerInit(CHOOSE a \in LoggerArgs : a.keep_output)
    /\ trainer = None
    /\ data = None

NextData ==
    \/ SignalNew /\ UNCHANGED <<logger, trainer>>
    \/ SignalLikeThisCall /\ UNCHANGED <<logger, trainer>>
    \/ SampleNew /\ UNCHANGED <<logger, trainer>>
    \/ SampleLikeThisCall /\ UNCHANGED <<logger, trainer>>
    \/ SampleEqCall /\ UNCHANGED <<logger, trainer>>

SpecData == InitData /\ [][NextData]_vars

(***************************************************************************)
(* training.py: Trainer.fit and the Stoppers, which the package declares   *)
(* and leaves to implementations; they are modelled as specified.          *)
(***************************************************************************)
\* Stoppers: one that fires once the given number of training epochs has
\* run, and one that fires at a validation result once more validation
\* epochs than its patience have run
MaxEpochsStopper(epochs) == [type |-> "MAX_EPOCHS", epochs |-> epochs]
EarlyStopper(patience) == [type |-> "EARLY_STOPPING", patience |-> patience]

Stoppers ==
    {MaxEpochsStopper(n) : n \in 1..MaxStopperEpochs}
        \cup {EarlyStopper(n) : n \in 1..(MaxStopperEpochs - 1)}

\* data loaders, by the batches they give
DataLoaders == {<<>>} \cup {<<b>> : b \in BatchInputs}

\* The arguments fit is called with
FitArgs ==
    [dl_train : DataLoaders, dl_val : DataLoaders,
     stoppers : {<<>>} \cup {<<s>> : s \in Stoppers}
                    \cup {<<s, t>> : s \in Stoppers, t \in Stoppers},
     validation_every : 1..FitMaxEpochs]

\* StopperCall with a max-epochs Stopper that fires one epoch late
StopperCallLate(stopper, train_result, validation_result) ==
    IF stopper.type = "MAX_EPOCHS"
    THEN train_epochs_run > stopper.epochs
    ELSE validation_result # None /\ validation_epochs_run > stopper.patience

\* Stopper.__call__(trainer, train_result, validation_result), reading the
\* trainer's Logger
StopperCall(stopper, train_result, validation_result) ==
    IF stopper.type = "MAX_EPOCHS"
    THEN train_epochs_run >= stopper.epochs
    ELSE validation_result # None /\ validation_epochs_run > stopper.patience

\* StopsLoop asking for every Stopper to fire
StopsLoopUnanimous(decisions) ==
    \A i \in 1..Len(decisions) : decisions[i]

\* fit leaves the loop when any Stopper returned true
StopsLoop(decisions) ==
    \E i \in 1..Len(decisions) : decisions[i]

\* fit is called: nothing has run yet
FitCalled(args) ==
    [pc |-> "train_epoch", dl_train |-> args.dl_train, dl_val |-> args.dl_val,
     stoppers |-> args.stoppers, validation_every |-> args.validation_every,
     epoch |-> 0, batch |-> 0, train_result |-> None,
     validation_result |-> None, decisions |-> <<>>, boundaries |-> 0,
     stopped |-> FALSE, fits |-> 0, raised |-> "None", result |-> None]

\* an error raised by the Logger ends fit
FitRaised(error) == [trainer EXCEPT !.pc = "raised", !.raised = error]

\* train_epoch and test_epoch open an epoch on the Logger
FitStartEpoch(pc, train, batches) ==
    /\ trainer.pc = pc
    /\ StartEpochAccepted(train, ~train, trainer.epoch)
    /\ trainer' = [trainer EXCEPT !.pc = batches, !.batch = 0]

\* train_batch and test_batch report the next batch of the loader
FitBatch(pc, dl) ==
    /\ trainer.pc = pc
    /\ trainer.batch < Len(dl)
    /\ NewBatchUnsupported(dl[trainer.batch + 1])
           \/ NewBatchAppend(dl[trainer.batch + 1])
    /\ trainer' = IF last'.err = "None"
                  THEN [trainer EXCEPT !.batch = @ + 1]
                  ELSE FitRaised(last'.err)

\* train_epoch finishes the epoch once the loader is through; a validation
\* epoch follows every validation_every epochs
FitFinishTrainEpoch ==
    /\ trainer.pc = "train_batch"
    /\ trainer.batch = Len(trainer.dl_train)
    /\ finish_epoch
    /\ trainer' = IF last'.err = "None"
                  THEN [trainer EXCEPT
                           !.train_result = last'.ret,
                           !.validation_result = None,
                           !.pc = IF (trainer.epoch + 1) % trainer.validation_every = 0
                                  THEN "test_epoch" ELSE "stoppers"]
                  ELSE FitRaised(last'.err)

\* test_epoch finishes the validation epoch
FitFinishTestEpoch ==
    /\ trainer.pc = "test_batch"
    /\ trainer.batch = Len(trainer.dl_val)
    /\ finish_epoch
    /\ trainer' = IF last'.err = "None"
                  THEN [trainer EXCEPT !.validation_result = last'.ret,
                                       !.pc = "stoppers"]
                  ELSE FitRaised(last'.err)

\* the epoch boundary: all the Stoppers are evaluated
FitStoppers ==
    /\ trainer.pc = "stoppers"
    /\ LET decisions ==
               [i \in 1..Len(trainer.stoppers) |->
                   StopperCall(trainer.stoppers[i], trainer.train_result,
                               trainer.validation_result)]
       IN trainer' = [trainer EXCEPT
                         !.decisions = decisions,
                         !.boundaries = @ + 1,
                         !.stopped = StopsLoop(decisions),
                         !.pc = IF StopsLoop(decisions) THEN "finish_training"
                                ELSE "callbacks"]
    /\ UNCHANGED logger

\* the Callbacks are invoked, and the loop goes on to the next epoch, up to
\* the maximum
FitCallbacks ==
    /\ trainer.pc = "callbacks"
    /\ trainer' = [trainer EXCEPT
                      !.epoch = @ + 1,
                      !.pc = IF trainer.epoch + 1 >= FitMaxEpochs
                             THEN "finish_training" ELSE "train_epoch"]
    /\ UNCHANGED logger

\* the loop has ended: fit returns the FitResult of Logger.finish_training
FitReturn ==
    /\ trainer.pc = "finish_training"
    /\ finish_training
    /\ trainer' = [trainer EXCEPT !.pc = "returned", !.fits = @ + 1,
                                  !.result = last'.ret]

\* fit is called on a Trainer with a new Logger
InitFit ==
    \E a \in LoggerArgs, args \in FitArgs :
        /\ LoggerInit(a)
        /\ trainer = FitCalled(args)
        /\ data = None

NextFit ==
    \/ FitStartEpoch("train_epoch", TRUE, "train_batch") /\ UNCHANGED data
    \/ FitBatch("train_batch", trainer.dl_train) /\ UNCHANGED data
    \/ FitFinishTrainEpoch /\ UNCHANGED data
    \/ FitStartEpoch("test_epoch", FALSE, "test_batch") /\ UNCHANGED data
    \/ FitBatch("test_batch", trainer.dl_val) /\ UNCHANGED data
    \/ FitFinishTestEpoch /\ UNCHANGED data
    \/ FitStoppers /\ UNCHANGED data
    \/ FitCallbacks /\ UNCHANGED data
    \/ FitReturn /\ UNCHANGED data

SpecFit == InitFit /\ [][NextFit]_vars

(***************************************************************************)
(* Properties of the Logger.                                               *)
(***************************************************************************)
\* the step is a call of finish_epoch that returned
FinishEpochReturned == last'.op = "finish_epoch" /\ last'.err = "None"

\* the deque a dictionary of batch results holds under e keeps its contents
\* over the step
EntryKept(results, e) ==
    (e \in DOMAIN results' /\ results'[e] = results[e])
        => heap'[results'[e]] = heap[results[e]]

\* C1: once finish_epoch has stored the in-progress buffer under an epoch
\* number, no later call changes the batch results recorded there.
C1_StoredBatchesNotMutated ==
    [][/\ \A e \in DOMAIN _batch_train_results :
              EntryKept(_batch_train_results, e)
       /\ \A e \in DOMAIN _batch_validation_results :
              EntryKept(_batch_validation_results, e)]_vars

\* C2: every finish_epoch that returns closes an epoch that a start_epoch
\* opened and no earlier finish_epoch closed.
C2_FinishClosesOpenEpoch ==
    [][FinishEpochReturned => epoch_state = "open"]_vars

\* C3 as stated: finish_epoch never fails with the invalid-state error.
C3_InvalidStateUnreachable ==
    ~(last.op = "finish_epoch" /\ last.err = "RuntimeError")

\* C3: once a start_epoch has succeeded, no finish_epoch fails with the
\* invalid-state error.
C3_InvalidStateOnlyBeforeFirstStart ==
    (epoch_state # "none" /\ last.op = "finish_epoch")
        => last.err # "RuntimeError"

\* C3 witness: an epoch was started and finish_epoch returned, twice in the run
C3_Witness ==
    /\ last.op = "finish_epoch"
    /\ last.err = "None"
    /\ epoch_state = "closed"
    /\ train_epochs_run + validation_epochs_run = 2

\* an epoch metric requires a batch-metric type no registered batch metric
\* produces
MissingDependency ==
    \E i \in 1..Len(_epoch_metrics) :
        \E r \in 1..Len(_epoch_metrics[i].required_batch_metrics) :
            _epoch_metrics[i].required_batch_metrics[r] \notin TypesOf(_batch_metrics)

\* C4 as stated: with a missing dependency, finish_epoch of an open epoch
\* fails with the missing-dependency error whatever batches were reported.
C4_MissingDependencyAlwaysFails ==
    [][(MissingDependency /\ epoch_state = "open" /\ last'.op = "finish_epoch")
          => last'.err = "IndexError"]_vars

\* C4: with a missing dependency, finish_epoch fails with the
\* missing-dependency error whenever the in-progress buffer holds a batch.
C4_MissingDependencyFailsOnBatches ==
    (MissingDependency /\ last.op = "finish_epoch" /\ CurrentBuffer # <<>>)
        => last.err = "IndexError"

\* C4 witness: finish_epoch of an open epoch with two batches fails on the missing dependency
C4_Witness ==
    /\ MissingDependency
    /\ epoch_state = "open"
    /\ last.op = "finish_epoch"
    /\ last.err = "IndexError"
    /\ Len(CurrentBuffer) = 2

\* C5: the EpochResult of an open epoch holds, for every registered
\* batch-metric type, one value per batch, in call order, and the batches'
\* losses in call order.
C5_BatchMetricsInCallOrder ==
    [][(epoch_state = "open" /\ FinishEpochReturned) =>
          /\ \A t \in TypesOf(_batch_metrics) :
                /\ Len(last'.ret.batch_metrics[t]) = Len(CurrentBuffer)
                /\ \A i \in 1..Len(CurrentBuffer) :
                       last'.ret.batch_metrics[t][i] = CurrentBuffer[i].metrics[t]
          /\ Len(last'.ret.batch_losses) = Len(CurrentBuffer)
          /\ \A i \in 1..Len(CurrentBuffer) :
                 last'.ret.batch_losses[i] = CurrentBuffer[i].loss]_vars

\* the sum of the batch sizes of a sequence of batch results
RECURSIVE SumOfBatchSizes(_)
SumOfBatchSizes(buf) ==
    IF buf = <<>> THEN 0 ELSE Head(buf).batch_size + SumOfBatchSizes(Tail(buf))

\* C6: the EpochResult finish_epoch returns has epoch_size equal to the sum
\* of the batch sizes of the batches in the in-progress buffer.
C6_EpochSizeIsSum ==
    (last.op = "finish_epoch" /\ last.err = "None")
        => last.ret.epoch_size = SumOfBatchSizes(CurrentBuffer)

\* C6 witness: finish_epoch returned the size 10 of two batches of sizes 4 and 6
C6_Witness ==
    /\ last.op = "finish_epoch"
    /\ last.err = "None"
    /\ Len(CurrentBuffer) = 2
    /\ last.ret.epoch_size = 10

\* C7: the FitResult of finish_training holds, for every training epoch and
\* every registered epoch-metric type, the scalar of the EpochResult that
\* finish_epoch returned for that epoch.
C7_FitEpochMetricsRoundTrip ==
    last.op = "finish_training" =>
        \A t \in TypesOf(_epoch_metrics) :
            /\ DOMAIN fit_result.epoch_train_metrics[t] = DOMAIN returned.training
            /\ \A e \in DOMAIN returned.training :
                   fit_result.epoch_train_metrics[t][e]
                       = returned.training[e].epoch_metrics[t]

\* C7 witness: finish_training returned after training epochs 0 and 1 with different scalars
C7_Witness ==
    /\ last.op = "finish_training"
    /\ DOMAIN returned.training = {0, 1}
    /\ \E t \in TypesOf(_epoch_metrics) :
           /\ returned.training[0].epoch_metrics[t] > 0
           /\ returned.training[1].epoch_metrics[t]
                  # returned.training[0].epoch_metrics[t]

\* C8: start_epoch fails with the configuration error whenever train equals
\* validation.
C8_SamePhaseRejected ==
    (last.op = "start_epoch" /\ last.args.train = last.args.validation)
        => last.err = "ValueError"

\* C8 witness: start_epoch(train=False, validation=False, n) failed
C8_Witness ==
    /\ last.op = "start_epoch"
    /\ ~last.args.train
    /\ ~last.args.validation
    /\ last.err = "ValueError"

\* C9: right after a start_epoch that returned, mode is the phase asked for,
\* current_epoch is the number given and the in-progress buffer is empty.
C9_StartEpochSetsModeAndEpoch ==
    (last.op = "start_epoch" /\ last.err = "None") =>
        /\ last.args.train => mode = "training"
        /\ last.args.validation => mode = "validation"
        /\ _current_epoch = last.args.current_epoch
        /\ CurrentBuffer = <<>>

\* C9 witness: start_epoch(train=False, validation=True, 1) returned while earlier deques hold batches
C9_Witness ==
    /\ last.op = "start_epoch"
    /\ last.err = "None"
    /\ last.args.validation
    /\ mode = "validation"
    /\ _current_epoch = 1
    /\ BatchesHeld = 2

\* two FitResults agree on everything but the model
EquivalentFit(f, g) ==
    /\ f.batch_train_losses = g.batch_train_losses
    /\ f.batch_validation_losses = g.batch_validation_losses
    /\ f.batch_train_metrics = g.batch_train_metrics
    /\ f.batch_validation_metrics = g.batch_validation_metrics
    /\ f.epoch_train_metrics = g.epoch_train_metrics
    /\ f.epoch_validation_metrics = g.epoch_validation_metrics
    /\ f.num_epochs = g.num_epochs

\* the step is a finish_training call that follows an earlier one, with the
\* same model
FinishTrainingAgain ==
    /\ last'.op = "finish_training"
    /\ fit_result # None
    /\ fit_result'.model = fit_result.model

\* C10 as stated: two finish_training calls between which no epoch was
\* started return equivalent FitResults.
C10_SameFitUnlessEpochStarted ==
    [][(FinishTrainingAgain /\ since_fit # "started")
          => EquivalentFit(fit_result', fit_result)]_vars

\* C10: two finish_training calls between which no start_epoch and no
\* finish_epoch succeeded return equivalent FitResults.
C10_SameFitUnlessEpochStartedOrFinished ==
    [][(FinishTrainingAgain /\ NothingSinceFit)
          => EquivalentFit(fit_result', fit_result)]_vars

\* C10 witness: finish_training returned a second time, no start_epoch or
\* finish_epoch having succeeded in between, on a Logger with a finished training epoch
C10_Witness ==
    /\ last.op = "finish_training"
    /\ since_fit = "again"
    /\ BatchesHeld = 2
    /\ DOMAIN fit_result.batch_train_losses # {}

\* the losses read through a reference a FitResult holds
Items(ref) ==
    IF ref.deque = 0 THEN ref.list ELSE FinishEpochLosses(heap[ref.deque])

\* what a holder of the FitResult returned last reads in it
FitContents ==
    IF fit_result = None THEN None
    ELSE [fit_result EXCEPT
            !.batch_train_losses = [e \in DOMAIN @ |-> Items(@[e])],
            !.batch_validation_losses = [e \in DOMAIN @ |-> Items(@[e])]]

\* C11: no start_epoch, new_batch or finish_epoch call changes what the
\* FitResult returned by the last finish_training holds.
C11_FitResultNotLive ==
    [][(fit_result # None /\ last'.op # "finish_training")
          => FitContents' = FitContents]_vars

\* C11 witness: after finish_training, new_batch appended to the deque stored
\* for a training epoch the FitResult covers
C11_Witness ==
    /\ fit_result # None
    /\ last.op = "new_batch"
    /\ last.err = "None"
    /\ \E e \in DOMAIN fit_result.batch_train_losses :
           /\ e \in DOMAIN _batch_train_results
           /\ _batch_train_results[e] = _current_epoch_batch_results
           /\ Len(CurrentBuffer) > Len(Items(fit_result.batch_train_losses[e]))

C13_NumEpochsIsEpochsTrained ==
    (last.op = "finish_training" /\ epoch_state = "closed"
                                 /\ validation_epochs_run = 0)
        => fit_result.num_epochs = train_epochs_run

\* C14: current_epoch changes only in a start_epoch that returns.
C14_CurrentEpochOnlyByStartEpoch ==
    [][~(last'.op = "start_epoch" /\ last'.err = "None")
          => _current_epoch' = _current_epoch]_vars

\* C14 witness: a start_epoch call failed while current_epoch was 1, set by
\* an earlier start_epoch
C14_Witness ==
    /\ last.op = "start_epoch"
    /\ last.err = "ValueError"
    /\ epoch_state = "open"
    /\ _current_epoch = 1
    /\ epoch_given = 1

\* the step stored the in-progress buffer and the returned EpochResult under
\* current_epoch in these dictionaries and added one to this counter
PhaseStored(batch_results, epoch_results, epochs_run) ==
    /\ _current_epoch \in DOMAIN batch_results'
    /\ batch_results'[_current_epoch] = _current_epoch_batch_results
    /\ heap'[batch_results'[_current_epoch]] = CurrentBuffer
    /\ _current_epoch \in DOMAIN epoch_results'
    /\ epoch_results'[_current_epoch] = last'.ret
    /\ epochs_run' = epochs_run + 1

\* the step left these dictionaries, the deques they hold and this counter
\* as they were
PhaseKept(batch_results, epoch_results, epochs_run) ==
    /\ batch_results' = batch_results
    /\ \A e \in DOMAIN batch_results : heap'[batch_results[e]] = heap[batch_results[e]]
    /\ epoch_results' = epoch_results
    /\ epochs_run' = epochs_run

\* C15: a finish_epoch that returns stores the buffer and the EpochResult
\* under current_epoch in the dictionaries of the phase given by mode, adds
\* one to that phase's counter and leaves the other phase's dictionaries and
\* counter unchanged.
C15_FinishEpochStoresInOwnPhase ==
    [][FinishEpochReturned =>
          /\ mode = "training" =>
                /\ PhaseStored(_batch_train_results, _epoch_train_results,
                               train_epochs_run)
                /\ PhaseKept(_batch_validation_results, _epoch_validation_results,
                             validation_epochs_run)
          /\ mode = "validation" =>
                /\ PhaseStored(_batch_validation_results,
                               _epoch_validation_results, validation_epochs_run)
                /\ PhaseKept(_batch_train_results, _epoch_train_results,
                             train_epochs_run)
          /\ mode \in {"training", "validation"}]_vars

\* C15 witness: a validation epoch was finished under the number of a
\* finished training epoch that holds another result
C15_Witness ==
    /\ last.op = "finish_epoch"
    /\ last.err = "None"
    /\ mode = "validation"
    /\ train_epochs_run = 1
    /\ validation_epochs_run = 1
    /\ _current_epoch \in DOMAIN _epoch_train_results
    /\ _epoch_validation_results[_current_epoch] = last.ret
    /\ _epoch_train_results[_current_epoch] # last.ret

\* the losses and batch metrics of a FitResult for one phase hold exactly
\* the epochs finish_epoch returned for, with the sequences of their EpochResults
Transposed(losses, metrics, results) ==
    /\ DOMAIN losses = DOMAIN results
    /\ \A e \in DOMAIN results : Items(losses[e]) = results[e].batch_losses
    /\ DOMAIN metrics = TypesOf(_batch_metrics)
    /\ \A t \in TypesOf(_batch_metrics) :
           /\ DOMAIN metrics[t] = DOMAIN results
           /\ \A e \in DOMAIN results :
                  metrics[t][e] = results[e].batch_metrics[t]

\* C16: the FitResult of finish_training holds, per phase, the loss sequence
\* of every finished epoch of that phase under its number and, per
\* registered batch-metric type, the metric sequence of every such epoch,
\* and nothing of the other phase.
C16_FitTransposesPerPhase ==
    last.op = "finish_training" =>
        /\ Transposed(fit_result.batch_train_losses,
                      fit_result.batch_train_metrics, returned.training)
        /\ Transposed(fit_result.batch_validation_losses,
                      fit_result.batch_validation_metrics, returned.validation)

\* C16 witness: finish_training returned for a Logger with two batch-metric
\* types, a training epoch 0 with a batch and an empty validation epoch 1
C16_Witness ==
    /\ last.op = "finish_training"
    /\ TypesOf(_batch_metrics) = {"ACCURACY", "PPV"}
    /\ DOMAIN returned.training = {0}
    /\ DOMAIN returned.validation = {1}
    /\ Len(fit_result.batch_train_metrics["PPV"][0]) = 1
    /\ fit_result.batch_validation_metrics["PPV"][1] = <<>>
    /\ fit_result.batch_train_metrics["PPV"][0]
           # fit_result.batch_train_metrics["ACCURACY"][0]

C18_OutputsKeptOnlyWithRetention ==
    (last.op = "new_batch" /\ last.err = "None" /\ ~_keep_output)
        => \A b \in BatchInputs :
               last.ret.y # b.y /\ last.ret.y_pred # b.y_pred

\* C19: with output retention enabled, new_batch fails with the
\* not-implemented error of _save_output and leaves the in-progress buffer
\* as it was; with retention disabled no new_batch fails with that error.
C19_RetentionUnsupported ==
    [][last'.op = "new_batch" =>
          IF _keep_output
          THEN /\ last'.err = "NotImplementedError"
               /\ _current_epoch_batch_results' = _current_epoch_batch_results
               /\ heap' = heap
          ELSE last'.err = "None"]_vars

\* C19 witness: new_batch failed with the not-implemented error in an open
\* epoch
C19_Witness ==
    /\ _keep_output
    /\ last.op = "new_batch"
    /\ last.err = "NotImplementedError"
    /\ epoch_state = "open"
    /\ CurrentBuffer = <<>>

\* C20: the BatchResult new_batch returns, indexed by the type of its loss,
\* gives that LossResult; indexed by any other loss type, gives None; indexed
\* by a batch-metric type it holds, gives the value that metric computed
\* for the batch.
C20_BatchResultIndexing ==
    (last.op = "new_batch" /\ last.err = "None") =>
        \E b \in BatchInputs :
            /\ last.ret.loss = b.loss
            /\ BatchResultGetItem(last.ret, b.loss.type) = b.loss
            /\ \A item \in LossType \ {b.loss.type} :
                   BatchResultGetItem(last.ret, item) = None
            /\ \A t \in DOMAIN last.ret.metrics :
                   BatchResultGetItem(last.ret, t) =
                       BatchMetricCall(_batch_metrics[LastOfType(_batch_metrics, t)],
                                       b.y, b.y_pred)

\* C20 witness: new_batch returned a BatchResult with a BCE loss and a PPV
\* metric, which gives None under MSE
C20_Witness ==
    /\ last.op = "new_batch"
    /\ last.err = "None"
    /\ last.ret.loss.type = "BCE"
    /\ BatchResultGetItem(last.ret, "BCE") = last.ret.loss
    /\ BatchResultGetItem(last.ret, "MSE") = None
    /\ "PPV" \in DOMAIN last.ret.metrics
    /\ BatchResultGetItem(last.ret, "PPV") = 2

\* C25: a new_batch that returns computes a value for every registered
\* BatchMetric from the y and y_pred it was given, appends one BatchResult
\* to the end of the in-progress buffer and returns that BatchResult, which
\* carries the given loss and batch_size; mode, current_epoch, the epoch-run
\* counters and the epochs held by the dictionaries stay as they were.
C25_NewBatchAppendsOne ==
    [][(last'.op = "new_batch" /\ last'.err = "None") =>
          LET b == last'.args
              batch_result == last'.ret
          IN /\ \A i \in 1..Len(_batch_metrics) :
                    /\ _batch_metrics[i].type \in DOMAIN batch_result.metrics
                    /\ \E j \in 1..Len(_batch_metrics) :
                           /\ _batch_metrics[j].type = _batch_metrics[i].type
                           /\ batch_result.metrics[_batch_metrics[i].type] =
                                  BatchMetricCall(_batch_metrics[j], b.y, b.y_pred)
             /\ DOMAIN batch_result.metrics = TypesOf(_batch_metrics)
             /\ _current_epoch_batch_results' = _current_epoch_batch_results
             /\ Len(CurrentBuffer') = Len(CurrentBuffer) + 1
             /\ SubSeq(CurrentBuffer', 1, Len(CurrentBuffer)) = CurrentBuffer
             /\ CurrentBuffer'[Len(CurrentBuffer')] = batch_result
             /\ batch_result.loss = b.loss
             /\ batch_result.batch_size = b.batch_size
             /\ mode' = mode
             /\ _current_epoch' = _current_epoch
             /\ train_epochs_run' = train_epochs_run
             /\ validation_epochs_run' = validation_epochs_run
             /\ DOMAIN _batch_train_results' = DOMAIN _batch_train_results
             /\ DOMAIN _epoch_train_results' = DOMAIN _epoch_train_results
             /\ DOMAIN _batch_validation_results' = DOMAIN _batch_validation_results
             /\ DOMAIN _epoch_validation_results' = DOMAIN _epoch_validation_results]_vars

\* C25 witness: new_batch returned the second batch of an open epoch, which
\* differs from the first, after an epoch was finished
C25_Witness ==
    /\ last.op = "new_batch"
    /\ last.err = "None"
    /\ epoch_state = "open"
    /\ train_epochs_run + validation_epochs_run = 1
    /\ Len(CurrentBuffer) = 2
    /\ CurrentBuffer[2] = last.ret
    /\ CurrentBuffer[1] # last.ret

\* the step left the Logger's fields and the deques as they were
LoggerUnchanged ==
    /\ UNCHANGED <<config, mode, _current_epoch, fit_result>>
    /\ UNCHANGED <<_current_epoch_batch_results, heap>>
    /\ UNCHANGED <<_batch_train_results, _epoch_train_results, train_epochs_run>>
    /\ UNCHANGED <<_batch_validation_results, _epoch_validation_results,
                   validation_epochs_run>>

\* C26: a finish_epoch that fails, with the invalid-state error or with a
\* missing-dependency error, leaves the Logger as it was: the dictionaries
\* of both phases, both epoch-run counters and the buffer are unchanged and
\* the hook _log_epoch is not called.
C26_FailedFinishEpochChangesNothing ==
    [][(last'.op = "finish_epoch" /\ last'.err # "None") =>
          /\ last'.err \in {"RuntimeError", "IndexError"}
          /\ LoggerUnchanged
          /\ epochs_logged' = epochs_logged]_vars

\* C26 witness: finish_epoch failed on a missing dependency after an epoch
\* had been finished, stored and logged
C26_Witness ==
    /\ last.op = "finish_epoch"
    /\ last.err = "IndexError"
    /\ CurrentBuffer # <<>>
    /\ train_epochs_run + validation_epochs_run = 1
    /\ epochs_logged = 1

\* C27: a start_epoch that fails with the configuration error leaves mode,
\* current_epoch, the in-progress buffer, the dictionaries of both phases
\* and both counters as they were.
C27_FailedStartEpochChangesNothing ==
    [][(last'.op = "start_epoch" /\ last'.err # "None") =>
          /\ last'.err = "ValueError"
          /\ last'.args.train = last'.args.validation
          /\ LoggerUnchanged
          /\ CurrentBuffer' = CurrentBuffer]_vars

\* C27 witness: start_epoch failed in a validation epoch that holds a batch,
\* and the batch is still in the buffer
C27_Witness ==
    /\ last.op = "start_epoch"
    /\ last.err = "ValueError"
    /\ mode = "validation"
    /\ epoch_state = "open"
    /\ CurrentBuffer # <<>>
    /\ CurrentBuffer = reported

\* what a phase's dictionaries hold for the finished epochs stays as it was
\* over the step, but for the epoch the step finishes in that phase
StoredKept(phase, batch_results, epoch_results) ==
    \A e \in DOMAIN batch_results :
        ~(FinishEpochReturned /\ mode = phase /\ _current_epoch = e) =>
            /\ e \in DOMAIN batch_results'
            /\ heap'[batch_results'[e]] = heap[batch_results[e]]
            /\ e \in DOMAIN epoch_results'
            /\ epoch_results'[e] = epoch_results[e]

\* C28: when the methods are called as the protocol prescribes, the batch
\* results and the EpochResult stored for a finished epoch stay as they are
\* until an epoch of the same phase is finished under the same number.
C28_StoredEpochsKeptUnderProtocol ==
    [][/\ StoredKept("training", _batch_train_results, _epoch_train_results)
       /\ StoredKept("validation", _batch_validation_results,
                     _epoch_validation_results)]_vars

\* C28 witness: a training epoch with a batch is stored, and the epoch
\* started after it has received a batch in a buffer of its own
C28_Witness ==
    /\ epoch_state = "open"
    /\ last.op = "new_batch"
    /\ last.err = "None"
    /\ DOMAIN _batch_train_results = {0}
    /\ _batch_train_results[0] # _current_epoch_batch_results
    /\ Len(heap[_batch_train_results[0]]) = 1
    /\ heap[_batch_train_results[0]] # CurrentBuffer
    /\ Len(CurrentBuffer) = 1

\* a phase's two dictionaries hold the same epoch numbers, at most as many
\* as the phase's counter tells, and fewer exactly when some number was
\* finished more than once in the phase
KeysAndCounter(batch_results, epoch_results, epochs_run, finished_times) ==
    /\ DOMAIN batch_results = DOMAIN epoch_results
    /\ Cardinality(DOMAIN epoch_results) <= epochs_run
    /\ Cardinality(DOMAIN epoch_results) < epochs_run
           <=> \E e \in DOMAIN finished_times : finished_times[e] > 1

\* C29: for each phase, the dictionary of batch results and the dictionary
\* of EpochResults have the same keys, and the number of keys is at most the
\* phase's epoch-run counter, smaller exactly when some epoch number was
\* finished more than once in that phase.
C29_KeysMatchAndBoundedByCounter ==
    /\ KeysAndCounter(_batch_train_results, _epoch_train_results,
                      train_epochs_run, finishes.training)
    /\ KeysAndCounter(_batch_validation_results, _epoch_validation_results,
                      validation_epochs_run, finishes.validation)

\* C29 witness: training epoch 0 was finished twice, the second time with
\* another result, and validation epoch 0 never
C29_Witness ==
    /\ train_epochs_run = 2
    /\ DOMAIN _epoch_train_results = {0}
    /\ finishes.training[0] = 2
    /\ last.op = "finish_epoch"
    /\ last.err = "None"
    /\ last.ret = _epoch_train_results[0]
    /\ last.ret.epoch_size > 0
    /\ DOMAIN _epoch_validation_results = {}

\* the losses of a FitResult hold, for one phase, every epoch finish_epoch
\* returned for so far, with the losses of the result returned last
LossesOfAllFinished(losses, results) ==
    /\ DOMAIN losses = DOMAIN results
    /\ \A e \in DOMAIN results : losses[e].list = results[e].batch_losses

\* C30: finish_training assigns fit_result and nothing else: mode,
\* current_epoch, the buffer, the dictionaries of both phases and both
\* counters stay as they were; the FitResult of every finish_training, a
\* later one included, holds all the epochs finished before it.
C30_FinishTrainingOnlySetsFitResult ==
    [][last'.op = "finish_training" =>
          /\ UNCHANGED <<config, mode, _current_epoch>>
          /\ UNCHANGED <<_current_epoch_batch_results, heap>>
          /\ UNCHANGED <<_batch_train_results, _epoch_train_results,
                         train_epochs_run>>
          /\ UNCHANGED <<_batch_validation_results, _epoch_validation_results,
                         validation_epochs_run>>
          /\ fit_result' = last'.ret
          /\ fit_result' # None
          /\ LossesOfAllFinished(fit_result'.batch_train_losses, returned.training)
          /\ LossesOfAllFinished(fit_result'.batch_validation_losses,
                                 returned.validation)]_vars

\* C30 witness: after finish_training returned, a training epoch with a
\* batch was started and finished, which the FitResult at hand does not
\* hold and the next finish_training is to include
C30_Witness ==
    /\ fit_result # None
    /\ since_fit = "started"
    /\ epoch_state = "closed"
    /\ last.op = "finish_epoch"
    /\ last.err = "None"
    /\ mode = "training"
    /\ CurrentBuffer # <<>>
    /\ _current_epoch \notin DOMAIN fit_result.batch_train_losses
    /\ _current_epoch \in DOMAIN returned.training

\* a Signal whose signal is empty or has the time axis's number of time
\* steps, and whose end time is after its start time
SignalValid(signal) ==
    /\ \/ ArraySize(signal.signal) = 0
       \/ signal.signal.shape[2] = signal.time_axis.shape[2]
    /\ signal.end_time > signal.start_time

\* the channel names, when given, are as many as the channels
ChannelNamesFit(args) ==
    args.channel_names = <<>> \/ Len(args.channel_names) = args.signal.shape[1]

\* C24: constructing a Signal raises ValueError when the signal is not
\* empty and its number of time steps differs from the time axis's, and
\* when end_time <= start_time; an empty signal is accepted with any time
\* axis; every Signal that exists has a signal that is empty or as long as
\* its time axis, and an end time after its start time.
C24_SignalValidated ==
    (data # None /\ data.op \in {"Signal", "signal_like_this"}) =>
        /\ data.op = "Signal" =>
               /\ (/\ ArraySize(data.args.signal) # 0
                   /\ data.args.signal.shape[2] # data.args.time_axis.shape[2])
                      => data.raised = "ValueError"
               /\ data.args.end_time <= data.args.start_time
                      => data.raised = "ValueError"
               /\ (/\ ArraySize(data.args.signal) = 0
                   /\ data.args.end_time > data.args.start_time
                   /\ ChannelNamesFit(data.args))
                      => data.raised = "None"
        /\ data.raised = "None" => SignalValid(data.value)

\* C24 witness: a Signal with a signal as long as its time axis and equal
\* start and end times was refused
C24_Witness ==
    /\ data # None
    /\ data.op = "Signal"
    /\ data.raised = "ValueError"
    /\ ArraySize(data.args.signal) = 2
    /\ data.args.signal.shape[2] = data.args.time_axis.shape[2]
    /\ data.args.end_time = data.args.start_time
    /\ ChannelNamesFit(data.args)

\* C23: sample_like_this returns a Sample that has the given value in every
\* field given and the original's value in every other field; compared with
\* the original by ==, it is equal when no field is given and unequal when
\* a given value differs from the original's.
C23_SampleLikeThisCopies ==
    (data # None /\ data.op = "__eq__") =>
        /\ \A name \in DOMAIN data.args : data.other[name] = data.args[name]
        /\ \A name \in SampleProperties \ DOMAIN data.args :
               data.other[name] = data.self[name]
        /\ data.raised = "None"
        /\ DOMAIN data.args = {} => data.value
        /\ (\E name \in DOMAIN data.args : data.args[name] # data.self[name])
               => ~data.value

\* C21: with a max-epochs Stopper configured for 3 epochs as its only
\* Stopper, fit leaves the loop at the third epoch boundary and not before:
\* no training epoch after the third is started, and fit returns after
\* exactly 3 training epochs, whatever validation_every is.
C21_MaxEpochsStopperHaltsAfterThird ==
    trainer.stoppers = <<MaxEpochsStopper(3)>> =>
        /\ trainer.epoch <= 2
        /\ train_epochs_run <= 3
        /\ DOMAIN returned.training \subseteq {0, 1, 2}
        /\ mode = "training" => _current_epoch <= 2
        /\ trainer.boundaries <= 3
        /\ trainer.boundaries = 3 =>
               trainer.stopped /\ trainer.pc \in {"finish_training", "returned"}
        /\ trainer.stopped => trainer.boundaries = 3 /\ train_epochs_run = 3
        /\ trainer.pc = "returned" => trainer.stopped

\* C21 witness: fit returned after 3 training epochs of one batch and one
\* validation epoch, with validation every second epoch
C21_Witness ==
    /\ trainer.stoppers = <<MaxEpochsStopper(3)>>
    /\ trainer.validation_every = 2
    /\ trainer.pc = "returned"
    /\ Len(trainer.dl_train) = 1
    /\ train_epochs_run = 3
    /\ validation_epochs_run = 1
    /\ DOMAIN returned.training = {0, 1, 2}

\* some Stopper of the fit call returns true in the state at hand
SomeStopperFires ==
    \E i \in 1..Len(trainer.stoppers) :
        StopperCall(trainer.stoppers[i], trainer.train_result,
                    trainer.validation_result)

\* C22: at every epoch boundary fit evaluates all the Stoppers, and it
\* leaves the loop when one of them returns true: from then on no train or
\* validation epoch is opened on the Logger, finish_training is called, once
\* in the call of fit, and fit returns the FitResult it gave.
C22_AnyStopperEndsTheLoop ==
    [][/\ trainer.pc = "stoppers" =>
              /\ Len(trainer'.decisions) = Len(trainer.stoppers)
              /\ trainer'.boundaries = trainer.boundaries + 1
              /\ trainer'.stopped = SomeStopperFires
              /\ SomeStopperFires => trainer'.pc = "finish_training"
       /\ (last' # last /\ last'.op = "start_epoch") =>
              /\ ~trainer.stopped
              /\ last'.args.train => trainer.boundaries = train_epochs_run
       /\ trainer.stopped => (last' = last \/ last'.op = "finish_training")
       /\ last'.op = "finish_training" =>
              /\ trainer.fits = 0
              /\ trainer'.fits = 1
              /\ trainer'.pc = "returned"
              /\ trainer'.result = last'.ret
              /\ trainer'.result = fit_result']_vars

\* C22 witness: fit returned the FitResult of finish_training after the
\* second of two Stoppers fired at the second epoch boundary, where the
\* first did not
C22_Witness ==
    /\ trainer.pc = "returned"
    /\ trainer.decisions = <<FALSE, TRUE>>
    /\ trainer.boundaries = 2
    /\ trainer.fits = 1
    /\ trainer.result = fit_result
    /\ last.op = "finish_training"
    /\ train_epochs_run = 2

====
